---------------------------- MODULE Spec2Model ----------------------------
(***************************************************************************)
(* A model of ghactions.toolkit._context.GithubContext: the accessor over  *)
(* an environment mapping and a webhook payload file.                      *)
(*                                                                         *)
(* Python values are records tagged by t ("None", "str", "int", "dict",    *)
(* "list", "Path", "GitHubContextRepo", "GitHubContextIssue").  The result *)
(* of evaluating an expression is an outcome: Return(v) or Raise(e).       *)
(* An environment mapping (a dict[str, str]) is a function from the names  *)
(* that are set to their string values.                                    *)
(***************************************************************************)
EXTENDS Integers, Sequences, FiniteSets, TLC

(***************************************************************************)
(* Python values and outcomes                                              *)
(***************************************************************************)
None == [t |-> "None"]

Str(s) == [t |-> "str", v |-> s]

PyInt(n) == [t |-> "int", v |-> n]

PyBool(b) == [t |-> "bool", v |-> b]

Dict(f) == [t |-> "dict", v |-> f]

List(q) == [t |-> "list", v |-> q]

EmptyMap == [k \in {} |-> None]

Return(v) == [kind |-> "return", val |-> v]

Raise(e) == [kind |-> "raise", val |-> e]

\* bool(x): the truth value Python gives a value in `if x`, `not x`, `x or y`.
Truthy(x) ==
    CASE x.t = "None" -> FALSE
      [] x.t = "str"  -> x.v # ""
      [] x.t = "int"  -> x.v # 0
      [] x.t = "bool" -> x.v
      [] x.t = "dict" -> DOMAIN x.v # {}
      [] x.t = "list" -> Len(x.v) > 0
      [] OTHER        -> TRUE

\* d.get(k): only a dict has the method; a missing key gives None.
get(d, k) ==
    IF d.t # "dict" THEN Raise("AttributeError")
    ELSE IF k \in DOMAIN d.v THEN Return(d.v[k])
    ELSE Return(None)

\* d[k]: KeyError on a dict without the key, TypeError on a value that
\* cannot be indexed by a string.
getitem(d, k) ==
    IF d.t = "dict"
    THEN IF k \in DOMAIN d.v THEN Return(d.v[k]) ELSE Raise("KeyError")
    ELSE Raise("TypeError")

\* env.get(k) and env.get(k, default) on a dict[str, str].
env_get(env, k, default) ==
    IF k \in DOMAIN env THEN Str(env[k]) ELSE default

\* s.split(sep) for a one-character separator: every occurrence splits.
RECURSIVE split_from(_, _, _, _)
split_from(s, sep, i, cur) ==
    IF i > Len(s) THEN <<cur>>
    ELSE IF SubSeq(s, i, i) = sep
         THEN <<cur>> \o split_from(s, sep, i + 1, "")
         ELSE split_from(s, sep, i + 1, cur \o SubSeq(s, i, i))

split(s, sep) == split_from(s, sep, 1, "")

LowerChar(c) ==
    CASE c = "T" -> "t" [] c = "R" -> "r" [] c = "U" -> "u" [] c = "E" -> "e"
      [] c = "F" -> "f" [] c = "A" -> "a" [] c = "L" -> "l" [] c = "S" -> "s"
      [] c = "Y" -> "y" [] c = "O" -> "o" [] c = "N" -> "n"
      [] OTHER -> c

\* s.lower()
RECURSIVE lower(_)
lower(s) ==
    IF s = "" THEN ""
    ELSE LowerChar(SubSeq(s, 1, 1)) \o lower(SubSeq(s, 2, Len(s)))

\* pathlib.Path(s): the empty string is the current directory.
Path(s) == [t |-> "Path", v |-> IF s = "" THEN "." ELSE s]

\* Path(value) for a value that is a str or already a Path.
ToPath(x) == IF x.t = "Path" THEN x ELSE Path(x.v)

\* Path.is_file() against the file system: a function from the paths that
\* exist to [kind |-> "file" | "dir", text |-> ...].
is_file(files, p) == p.v \in DOMAIN files /\ files[p.v].kind = "file"

\* json.loads(text): a text is [valid |-> BOOLEAN, doc |-> the value it encodes].
json_loads(text) ==
    IF text.valid THEN Return(text.doc) ELSE Raise("JSONDecodeError")

(***************************************************************************)
(* The value tuples                                                        *)
(***************************************************************************)
GitHubContextRepo(owner, name) ==
    [t |-> "GitHubContextRepo", owner |-> owner, name |-> name]

GitHubContextIssue(owner, repo, number) ==
    [t |-> "GitHubContextIssue", owner |-> owner, repo |-> repo, number |-> number]

\* GitHubContextRepo(*parts): a NamedTuple of two fields takes exactly two.
GitHubContextRepo_star(parts) ==
    IF Len(parts) = 2
    THEN Return(GitHubContextRepo(Str(parts[1]), Str(parts[2])))
    ELSE Raise("TypeError")

(***************************************************************************)
(* GithubContext: the properties that read one environment variable.       *)
(* Each takes the mapping self.env.                                        *)
(***************************************************************************)
action(env) == env_get(env, "GITHUB_ACTION", Str(""))

action_path(env) ==
    LET value == env_get(env, "GITHUB_ACTION_PATH", None)
    IN  IF Truthy(value) THEN Path(value.v) ELSE None

action_ref(env) == env_get(env, "GITHUB_ACTION_REF", None)

action_repository(env) == env_get(env, "GITHUB_ACTION_REPOSITORY", None)

actor(env) == env_get(env, "GITHUB_ACTOR", Str(""))

api_url(env) == env_get(env, "GITHUB_API_URL", Str("https://api.github.com"))

base_ref(env) == env_get(env, "GITHUB_BASE_REF", None)

event_name(env) == env_get(env, "GITHUB_EVENT_NAME", Str(""))

graphql_url(env) == env_get(env, "GITHUB_GRAPHQL_URL", Str("https://api.github.com/graphql"))

head_ref(env) == env_get(env, "GITHUB_HEAD_REF", None)

job(env) == env_get(env, "GITHUB_JOB", None)

ref(env) == env_get(env, "GITHUB_REF", Str(""))

ref_name(env) == env_get(env, "GITHUB_REF_NAME", Str(""))

\* A variant that compares the value as it is, without `.lower()`.
ref_protected_exact(env) ==
    PyBool(env_get(env, "GITHUB_REF_PROTECTED", Str("")).v \in {"1", "true"})

ref_protected(env) ==
    PyBool(lower(env_get(env, "GITHUB_REF_PROTECTED", Str("")).v) \in {"1", "true"})

ref_type(env) == env_get(env, "GITHUB_REF_TYPE", Str("branch"))

server_url(env) == env_get(env, "GITHUB_SERVER_URL", Str("https://github.com"))

sha(env) == env_get(env, "GITHUB_SHA", Str(""))

token(env) == env_get(env, "GITHUB_TOKEN", Str(""))

triggering_actor(env) == env_get(env, "GITHUB_TRIGGERING_ACTOR", Str(""))

workflow(env) == env_get(env, "GITHUB_WORKFLOW", Str(""))

workflow_ref(env) == env_get(env, "GITHUB_WORKFLOW_REF", Str(""))

workflow_sha(env) == env_get(env, "GITHUB_WORKFLOW_SHA", Str(""))

\* The properties above by name, as `getattr(ctx, name)` reads them.
Passthrough ==
    {"action", "action_path", "action_ref", "action_repository",
     "actor", "api_url", "base_ref", "event_name",
     "graphql_url", "head_ref", "job", "ref",
     "ref_name", "ref_protected", "ref_type", "server_url",
     "sha", "token", "triggering_actor", "workflow",
     "workflow_ref", "workflow_sha"}

getattr_passthrough(name, env) ==
    CASE name = "action" -> action(env)
      [] name = "action_path" -> action_path(env)
      [] name = "action_ref" -> action_ref(env)
      [] name = "action_repository" -> action_repository(env)
      [] name = "actor" -> actor(env)
      [] name = "api_url" -> api_url(env)
      [] name = "base_ref" -> base_ref(env)
      [] name = "event_name" -> event_name(env)
      [] name = "graphql_url" -> graphql_url(env)
      [] name = "head_ref" -> head_ref(env)
      [] name = "job" -> job(env)
      [] name = "ref" -> ref(env)
      [] name = "ref_name" -> ref_name(env)
      [] name = "ref_protected" -> ref_protected(env)
      [] name = "ref_type" -> ref_type(env)
      [] name = "server_url" -> server_url(env)
      [] name = "sha" -> sha(env)
      [] name = "token" -> token(env)
      [] name = "triggering_actor" -> triggering_actor(env)
      [] name = "workflow" -> workflow(env)
      [] name = "workflow_ref" -> workflow_ref(env)
      [] name = "workflow_sha" -> workflow_sha(env)

(***************************************************************************)
(* GithubContext: the derived properties.                                  *)
(***************************************************************************)

\* A variant that lets the environment win over the explicit path
\* (`self.env.get("GITHUB_EVENT_PATH") or self._event_path`).
event_path_env_first(self_event_path, env) ==
    LET value == IF Truthy(env_get(env, "GITHUB_EVENT_PATH", None))
                 THEN env_get(env, "GITHUB_EVENT_PATH", None)
                 ELSE self_event_path
    IN  IF Truthy(value) THEN ToPath(value) ELSE None

\* GithubContext.event_path: `self._event_path or self.env.get(...)`, then
\* `Path(value) if value else None`.
event_path(self_event_path, env) ==
    LET value == IF Truthy(self_event_path) THEN self_event_path
                 ELSE env_get(env, "GITHUB_EVENT_PATH", None)
    IN  IF Truthy(value) THEN ToPath(value) ELSE None

\* The body of GithubContext.repository: an outcome.
repository(env, payload) ==
    IF Truthy(env_get(env, "GITHUB_REPOSITORY", None))
    THEN GitHubContextRepo_star(split(env["GITHUB_REPOSITORY"], "/"))
    ELSE LET repo == get(payload, "repository") IN
         IF repo.kind = "raise" THEN repo
         ELSE IF ~Truthy(repo.val) THEN Return(None)
         ELSE LET owner == getitem(repo.val, "owner") IN
              IF owner.kind = "raise" THEN owner
              ELSE LET login == getitem(owner.val, "login") IN
                   IF login.kind = "raise" THEN login
                   ELSE LET name == getitem(repo.val, "name") IN
                        IF name.kind = "raise" THEN name
                        ELSE Return(GitHubContextRepo(login.val, name.val))

\* A variant that is a plain property: the body runs on every read and the
\* instance dictionary takes the latest value.
uncached_repository(env, payload, cached) ==
    LET r == repository(env, payload) IN
    [out |-> r,
     cached |-> IF r.kind = "return"
                THEN [k \in DOMAIN cached \cup {"repository"} |->
                        IF k = "repository" THEN r.val ELSE cached[k]]
                ELSE cached]

\* functools.cached_property on `repository`: the instance dictionary holds
\* the value once the body has returned; a body that raises stores nothing.
\* Gives the outcome and the instance dictionary afterwards.
cached_repository(env, payload, cached) ==
    IF "repository" \in DOMAIN cached
    THEN [out |-> Return(cached["repository"]), cached |-> cached]
    ELSE LET r == repository(env, payload) IN
         [out |-> r,
          cached |-> IF r.kind = "return"
                     THEN [k \in DOMAIN cached \cup {"repository"} |->
                             IF k = "repository" THEN r.val ELSE cached[k]]
                     ELSE cached]

\* A variant that takes a field because the key is there
\* (`if "issue" in self._payload`), whatever its value.
issue_payload_by_key(payload) ==
    IF payload.t # "dict" THEN Raise("AttributeError")
    ELSE IF "issue" \in DOMAIN payload.v THEN Return(payload.v["issue"])
    ELSE IF "pull_request" \in DOMAIN payload.v THEN Return(payload.v["pull_request"])
    ELSE Return(payload)

\* `self._payload.get("issue") or self._payload.get("pull_request") or self._payload`
issue_payload(payload) ==
    LET a == get(payload, "issue") IN
    IF a.kind = "raise" THEN a
    ELSE IF Truthy(a.val) THEN a
    ELSE LET b == get(payload, "pull_request") IN
         IF b.kind = "raise" THEN b
         ELSE IF Truthy(b.val) THEN b
         ELSE Return(payload)

\* A variant whose body derives the repository itself instead of reading
\* the cached_property (`repo = self._derive_repository()`).
issue_rederiving(env, payload, cached) ==
    LET p == issue_payload(payload) IN
    IF p.kind = "raise" THEN [out |-> p, cached |-> cached]
    ELSE LET number == get(p.val, "number") IN
         IF number.kind = "raise" THEN [out |-> number, cached |-> cached]
         ELSE IF ~Truthy(number.val) THEN [out |-> Return(None), cached |-> cached]
         ELSE LET r == repository(env, payload) IN
              IF r.kind = "raise" THEN [out |-> r, cached |-> cached]
              ELSE IF ~Truthy(r.val) THEN [out |-> Return(None), cached |-> cached]
              ELSE [out |-> Return(GitHubContextIssue(r.val.owner, r.val.name,
                                                       number.val)),
                    cached |-> cached]

\* The body of GithubContext.issue: the outcome and the instance dictionary
\* afterwards (reading self.repository may fill it).
issue(env, payload, cached) ==
    LET p == issue_payload(payload) IN
    IF p.kind = "raise" THEN [out |-> p, cached |-> cached]
    ELSE LET number == get(p.val, "number") IN
         IF number.kind = "raise" THEN [out |-> number, cached |-> cached]
         ELSE IF ~Truthy(number.val) THEN [out |-> Return(None), cached |-> cached]
         ELSE LET r == cached_repository(env, payload, cached) IN
              IF r.out.kind = "raise" THEN r
              ELSE IF ~Truthy(r.out.val) THEN [out |-> Return(None), cached |-> r.cached]
              ELSE [out |-> Return(GitHubContextIssue(r.out.val.owner, r.out.val.name,
                                                       number.val)),
                    cached |-> r.cached]

\* functools.cached_property on `issue`.
cached_issue(env, payload, cached) ==
    IF "issue" \in DOMAIN cached
    THEN [out |-> Return(cached["issue"]), cached |-> cached]
    ELSE LET r == issue(env, payload, cached) IN
         [out |-> r.out,
          cached |-> IF r.out.kind = "return"
                     THEN [k \in DOMAIN r.cached \cup {"issue"} |->
                             IF k = "issue" THEN r.out.val ELSE r.cached[k]]
                     ELSE r.cached]

\* str(x) as an f-string formats a field of the repository.
format(x) ==
    CASE x.t = "str"  -> x.v
      [] x.t = "None" -> "None"
      [] OTHER        -> "<object>"

\* A variant that always names github.com
\* (`f"https://github.com/{self.repository.owner}/{self.repository.name}"`).
repository_url_github_com(env, payload, cached) ==
    LET r == cached_repository(env, payload, cached) IN
    IF r.out.kind = "raise" THEN r
    ELSE IF ~Truthy(r.out.val) THEN [out |-> Return(None), cached |-> r.cached]
    ELSE [out |-> Return(Str("https://github.com" \o "/" \o format(r.out.val.owner)
                               \o "/" \o format(r.out.val.name))),
          cached |-> r.cached]

\* GithubContext.repository_url: the outcome and the instance dictionary
\* afterwards (reading self.repository may fill it).
repository_url(env, payload, cached) ==
    LET r == cached_repository(env, payload, cached) IN
    IF r.out.kind = "raise" THEN r
    ELSE IF ~Truthy(r.out.val) THEN [out |-> Return(None), cached |-> r.cached]
    ELSE [out |-> Return(Str(server_url(env).v \o "/" \o format(r.out.val.owner)
                               \o "/" \o format(r.out.val.name))),
          cached |-> r.cached]

(***************************************************************************)
(* GithubContext: construction.                                            *)
(***************************************************************************)

\* GithubContext.__init__(environ=, event=, event_path=).  environ_given
\* tells whether the caller passed its mapping (whose content is environ_now)
\* or left the argument None; `environ or os.environ.copy()` keeps the
\* caller's own dict object when it is non-empty and copies the process
\* environment otherwise.  Gives the outcome and the attributes set.
GithubContext_init(environ_given, environ_now, os_env, event_arg, event_path_arg, fs) ==
    LET alias  == environ_given /\ Truthy(Dict(environ_now))
        env    == IF alias THEN environ_now ELSE os_env
        ep     == event_path(event_path_arg, env)
        loaded == IF Truthy(ep) /\ is_file(fs, ep)
                  THEN json_loads(fs[ep.v].text)
                  ELSE Return(Dict(EmptyMap))
    IN  [out  |-> IF loaded.kind = "raise" THEN loaded ELSE Return(None),
         self |-> [_event_path |-> event_path_arg,
                   env_alias   |-> alias,
                   env_copy    |-> IF alias THEN EmptyMap ELSE os_env,
                   event       |-> event_arg,
                   _payload    |-> loaded.val]]

\* A variant that does not hand the resolved path to the constructor
\* (`cls(environ=environ, event=...)`), which then resolves its own.
from_file_without_path(environ_given, environ_now, os_env, event_path_arg, fs) ==
    LET chosen == IF ~Truthy(event_path_arg)
                  THEN env_get(os_env, "GITHUB_EVENT_PATH", Str(""))
                  ELSE event_path_arg
        path   == ToPath(chosen)
    IN  IF ~is_file(fs, path)
        THEN [out |-> Raise("FileNotFoundError"), path |-> path]
        ELSE LET ev == json_loads(fs[path.v].text) IN
             IF ev.kind = "raise" THEN [out |-> ev, path |-> path]
             ELSE [path |-> path] @@
                  GithubContext_init(environ_given, environ_now, os_env, ev.val, None, fs)

\* A variant that tests `event_path.exists()`: a directory passes and
\* reading it fails with IsADirectoryError.
from_file_exists(environ_given, environ_now, os_env, event_path_arg, fs) ==
    LET chosen == IF ~Truthy(event_path_arg)
                  THEN env_get(os_env, "GITHUB_EVENT_PATH", Str(""))
                  ELSE event_path_arg
        path   == ToPath(chosen)
    IN  IF path.v \notin DOMAIN fs
        THEN [out |-> Raise("FileNotFoundError"), path |-> path]
        ELSE IF fs[path.v].kind # "file"
        THEN [out |-> Raise("IsADirectoryError"), path |-> path]
        ELSE LET ev == json_loads(fs[path.v].text) IN
             IF ev.kind = "raise" THEN [out |-> ev, path |-> path]
             ELSE [path |-> path] @@
                  GithubContext_init(environ_given, environ_now, os_env, ev.val, path, fs)

\* GithubContext.from_file(environ=, event_path=): event_path_arg is None, a
\* str or a Path.
from_file(environ_given, environ_now, os_env, event_path_arg, fs) ==
    LET chosen == IF ~Truthy(event_path_arg)
                  THEN env_get(os_env, "GITHUB_EVENT_PATH", Str(""))
                  ELSE event_path_arg
        path   == ToPath(chosen)
    IN  IF ~is_file(fs, path)
        THEN [out |-> Raise("FileNotFoundError"), path |-> path]
        ELSE LET ev == json_loads(fs[path.v].text) IN
             IF ev.kind = "raise" THEN [out |-> ev, path |-> path]
             ELSE [path |-> path] @@
                  GithubContext_init(environ_given, environ_now, os_env, ev.val, path, fs)

(***************************************************************************)
(* The state: the process environment, the caller's mapping, the file      *)
(* system, one GithubContext instance, and the last call with its outcome. *)
(***************************************************************************)
VARIABLES
    os_environ,    \* os.environ
    environ,       \* the dict the caller passes as `environ`
    files,         \* the file system
    constructed,   \* whether the instance exists
    _event_path,   \* self._event_path
    env_alias,     \* self.env is the caller's dict object (not a copy)
    env_copy,      \* self.env when it is a copy of os.environ
    event,         \* self.event
    _payload,      \* self._payload
    cached,        \* the cached_property entries of the instance dictionary
    runs,          \* how many times the body of each cached_property has run
    ret            \* the last call: what it was given and how it ended

world == <<os_environ, environ, files>>

self == <<constructed, _event_path, env_alias, env_copy, event, _payload, cached,
          runs>>

vars == <<os_environ, environ, files, constructed, _event_path, env_alias,
          env_copy, event, _payload, cached, runs, ret>>

\* self.env
self_env == IF env_alias THEN environ ELSE env_copy

NoCall == [op |-> "none", out |-> Return(None), environ_given |-> FALSE,
           event_arg |-> None, event_path_arg |-> None, path |-> None,
           fresh |-> FALSE]

NoRuns == [repository |-> 0, issue |-> 0]

\* The most runs of one body the model follows on one instance.
MaxRuns == 2

NoInstance ==
    /\ constructed = FALSE
    /\ _event_path = None
    /\ env_alias = FALSE
    /\ env_copy = EmptyMap
    /\ event = None
    /\ _payload = None
    /\ cached = EmptyMap
    /\ runs = NoRuns
    /\ ret = NoCall

\* ctx = GithubContext(environ=..., event=..., event_path=...)
Construct(environ_given, event_arg, event_path_arg) ==
    /\ ~constructed
    /\ ret.op = "none"
    /\ LET r == GithubContext_init(environ_given, environ, os_environ,
                                   event_arg, event_path_arg, files)
       IN  /\ ret' = [NoCall EXCEPT !.op = "__init__", !.out = r.out,
                                    !.environ_given = environ_given,
                                    !.event_arg = event_arg,
                                    !.event_path_arg = event_path_arg]
           /\ IF r.out.kind = "raise"
              THEN UNCHANGED self
              ELSE /\ constructed' = TRUE
                   /\ _event_path' = r.self._event_path
                   /\ env_alias' = r.self.env_alias
                   /\ env_copy' = r.self.env_copy
                   /\ event' = r.self.event
                   /\ _payload' = r.self._payload
                   /\ cached' = EmptyMap
                   /\ runs' = NoRuns
    /\ UNCHANGED world

\* ctx = GithubContext.from_file(environ=..., event_path=...)
FromFile(environ_given, event_path_arg) ==
    /\ ~constructed
    /\ ret.op = "none"
    /\ LET r == from_file(environ_given, environ, os_environ, event_path_arg, files)
       IN  /\ ret' = [NoCall EXCEPT !.op = "from_file", !.out = r.out,
                                    !.environ_given = environ_given,
                                    !.event_path_arg = event_path_arg,
                                    !.path = r.path]
           /\ IF r.out.kind = "raise"
              THEN UNCHANGED self
              ELSE /\ constructed' = TRUE
                   /\ _event_path' = r.self._event_path
                   /\ env_alias' = r.self.env_alias
                   /\ env_copy' = r.self.env_copy
                   /\ event' = r.self.event
                   /\ _payload' = r.self._payload
                   /\ cached' = EmptyMap
                   /\ runs' = NoRuns
    /\ UNCHANGED world

\* Whether a read of the cached_property `name` runs its body: it does
\* unless the instance dictionary holds a value for it.
body_runs(name, held) == IF name \in DOMAIN held THEN 0 ELSE 1

\* Whether the body of `issue` comes to read self.repository: the payload
\* has given a number that is not falsy.
issue_reads_repository(payload) ==
    LET p == issue_payload(payload) IN
    /\ p.kind = "return"
    /\ get(p.val, "number").kind = "return"
    /\ Truthy(get(p.val, "number").val)

\* ctx.repository
ReadRepository ==
    /\ constructed
    /\ runs.repository + body_runs("repository", cached) <= MaxRuns
    /\ LET r == cached_repository(self_env, _payload, cached)
       IN  /\ ret' = [NoCall EXCEPT !.op = "repository", !.out = r.out,
                                    !.fresh = "repository" \notin DOMAIN cached]
           /\ cached' = r.cached
    /\ runs' = [runs EXCEPT !.repository = @ + body_runs("repository", cached)]
    /\ UNCHANGED <<world, constructed, _event_path, env_alias, env_copy, event, _payload>>

\* ctx.issue
ReadIssue ==
    /\ constructed
    /\ LET inner == IF "issue" \notin DOMAIN cached /\ issue_reads_repository(_payload)
                    THEN body_runs("repository", cached) ELSE 0
       IN  /\ runs.issue + body_runs("issue", cached) <= MaxRuns
           /\ runs.repository + inner <= MaxRuns
           /\ runs' = [repository |-> runs.repository + inner,
                       issue |-> runs.issue + body_runs("issue", cached)]
    /\ LET r == cached_issue(self_env, _payload, cached)
       IN  /\ ret' = [NoCall EXCEPT !.op = "issue", !.out = r.out,
                                    !.fresh = "issue" \notin DOMAIN cached]
           /\ cached' = r.cached
    /\ UNCHANGED <<world, constructed, _event_path, env_alias, env_copy, event, _payload>>

\* ctx.repository_url
ReadRepositoryUrl ==
    /\ constructed
    /\ runs.repository + body_runs("repository", cached) <= MaxRuns
    /\ LET r == repository_url(self_env, _payload, cached)
       IN  /\ ret' = [NoCall EXCEPT !.op = "repository_url", !.out = r.out,
                                    !.fresh = "repository" \notin DOMAIN cached]
           /\ cached' = r.cached
    /\ runs' = [runs EXCEPT !.repository = @ + body_runs("repository", cached)]
    /\ UNCHANGED <<world, constructed, _event_path, env_alias, env_copy, event, _payload>>

\* A variant that records the path it resolved in the mapping it holds
\* (`self.env.setdefault("GITHUB_EVENT_PATH", str(value))`).
ReadEventPath_setdefault ==
    /\ constructed
    /\ LET value == event_path(_event_path, self_env)
           held  == IF Truthy(value)
                    THEN [k \in DOMAIN self_env \cup {"GITHUB_EVENT_PATH"} |->
                            IF k \in DOMAIN self_env THEN self_env[k] ELSE value.v]
                    ELSE self_env
       IN  /\ ret' = [NoCall EXCEPT !.op = "event_path", !.out = Return(value)]
           /\ IF env_alias
              THEN environ' = held /\ UNCHANGED env_copy
              ELSE env_copy' = held /\ UNCHANGED environ
    /\ UNCHANGED <<os_environ, files, constructed, _event_path, env_alias, event,
                   _payload, cached, runs>>

\* ctx.event_path
ReadEventPath ==
    /\ constructed
    /\ ret' = [NoCall EXCEPT !.op = "event_path",
                             !.out = Return(event_path(_event_path, self_env))]
    /\ UNCHANGED <<world, self>>

\* getattr(ctx, name) for one of the single-variable properties
ReadPassthrough(name) ==
    /\ constructed
    /\ ret' = [NoCall EXCEPT !.op = name,
                             !.out = Return(getattr_passthrough(name, self_env))]
    /\ UNCHANGED <<world, self>>

(***************************************************************************)
(* The caller and the rest of the process, between the calls.              *)
(***************************************************************************)

\* environ[name] = value, on the dict the caller passed
CallerSets(name, value) ==
    /\ constructed
    /\ environ' = [k \in DOMAIN environ \cup {name} |->
                     IF k = name THEN value ELSE environ[k]]
    /\ ret' = [NoCall EXCEPT !.op = "environ.__setitem__"]
    /\ UNCHANGED <<os_environ, files, self>>

\* environ.pop(name, None)
CallerPops(name) ==
    /\ constructed
    /\ environ' = [k \in DOMAIN environ \ {name} |-> environ[k]]
    /\ ret' = [NoCall EXCEPT !.op = "environ.pop"]
    /\ UNCHANGED <<os_environ, files, self>>

\* os.environ[name] = value
ProcessSets(name, value) ==
    /\ constructed
    /\ os_environ' = [k \in DOMAIN os_environ \cup {name} |->
                        IF k = name THEN value ELSE os_environ[k]]
    /\ ret' = [NoCall EXCEPT !.op = "os.environ.__setitem__"]
    /\ UNCHANGED <<environ, files, self>>

\* The event file is rewritten.
WriteFile(path, text) ==
    /\ constructed
    /\ files' = [p \in DOMAIN files \cup {path} |->
                   IF p = path THEN [kind |-> "file", text |-> text] ELSE files[p]]
    /\ ret' = [NoCall EXCEPT !.op = "write_text"]
    /\ UNCHANGED <<os_environ, environ, self>>

(***************************************************************************)
(* Inputs                                                                  *)
(***************************************************************************)
Json(doc) == [valid |-> TRUE, doc |-> doc]

Malformed == [valid |-> FALSE, doc |-> None]

File(text) == [kind |-> "file", text |-> text]

Directory == [kind |-> "dir", text |-> Malformed]

\* An environment mapping from the names that have a value.
EnvOf(path, repo) ==
    [k \in (IF path = <<>> THEN {} ELSE {"GITHUB_EVENT_PATH"})
           \cup (IF repo = <<>> THEN {} ELSE {"GITHUB_REPOSITORY"}) |->
        IF k = "GITHUB_EVENT_PATH" THEN path[1] ELSE repo[1]]

PushEvent ==
    Dict([repository |-> Dict([owner |-> Dict([login |-> Str("finleyfamily")]),
                               name |-> Str("ghactions")]),
          number |-> PyInt(9)])

OtherEvent ==
    Dict([repository |-> Dict([owner |-> Dict([login |-> Str("acme")]),
                               name |-> Str("widgets")]),
          issue |-> Dict([number |-> PyInt(7)])])

Events == {Dict([name |-> Str("foo")]), Dict(EmptyMap)}

\* What the file system holds: the event file (a payload, or text that is
\* not JSON), a second event file, and a directory.
FileSystems ==
    {[p \in {"event.json", "other.json", "tmp"} |->
        IF p = "event.json" THEN File(text)
        ELSE IF p = "other.json" THEN File(Json(OtherEvent))
        ELSE Directory] : text \in {Json(PushEvent), Json(Dict(EmptyMap)), Malformed}}

ProcessEnvs ==
    {EnvOf(path, <<>>) : path \in {<<>>, <<"">>, <<"event.json">>, <<"missing.json">>}}

CallerEnvs ==
    {EnvOf(path, repo) : path \in {<<>>, <<"other.json">>, <<"tmp">>},
                         repo \in {<<>>, <<"user/repo">>}}

EventPathArgs ==
    {None, Str(""), Str("event.json"), Path("other.json"), Path("tmp")}

Init ==
    /\ os_environ \in ProcessEnvs
    /\ environ \in CallerEnvs
    /\ files \in FileSystems
    /\ NoInstance

Next ==
    \/ \E given \in BOOLEAN, e \in Events, p \in {q \in EventPathArgs : q.t # "str"} :
          Construct(given, e, p)
    \/ \E given \in BOOLEAN, p \in EventPathArgs : FromFile(given, p)
    \/ ReadRepository
    \/ ReadIssue
    \/ ReadRepositoryUrl
    \/ ReadEventPath
    \/ CallerSets("GITHUB_REPOSITORY", "org/repo")
    \/ CallerPops("GITHUB_REPOSITORY")
    \/ ProcessSets("GITHUB_REPOSITORY", "org/repo")
    \/ WriteFile("event.json", Json(OtherEvent))

Spec == Init /\ [][Next]_vars

(***************************************************************************)
(* The derivations on bounded inputs: every GITHUB_REPOSITORY value up to  *)
(* MaxRepoLen characters, and payloads with each field absent, null, empty *)
(* or filled.                                                              *)
(***************************************************************************)
MaxRepoLen == 5

RepoChars == {"a", "/"}

RECURSIVE StringsUpTo(_)
StringsUpTo(n) ==
    IF n = 0 THEN {""}
    ELSE LET shorter == StringsUpTo(n - 1)
         IN  shorter \cup {s \o c : s \in shorter, c \in RepoChars}

\* A dict from a set of <<key, value>> pairs.
MkDict(pairs) ==
    Dict([k \in {p[1] : p \in pairs} |-> (CHOOSE p \in pairs : p[1] = k)[2]])

Field(key, values) == {{}} \cup {{<<key, v>>} : v \in values}

RepositoryFields ==
    Field("repository",
          {None,
           Dict(EmptyMap),
           MkDict({<<"name", Str("widgets")>>}),
           MkDict({<<"owner", Dict(EmptyMap)>>, <<"name", Str("widgets")>>}),
           MkDict({<<"owner", MkDict({<<"login", Str("acme")>>})>>}),
           MkDict({<<"owner", MkDict({<<"login", Str("acme")>>})>>,
                   <<"name", Str("widgets")>>})})

IssueFields ==
    Field("issue", {None, Dict(EmptyMap), MkDict({<<"number", PyInt(7)>>})})

PullRequestFields ==
    Field("pull_request", {Dict(EmptyMap), MkDict({<<"number", PyInt(8)>>})})

NumberFields == Field("number", {PyInt(0), PyInt(9)})

\* The JSON objects a payload file may hold, and one JSON document that is
\* not an object.
Payloads ==
    {MkDict(r \cup i \cup p \cup n) :
        r \in RepositoryFields, i \in IssueFields,
        p \in PullRequestFields, n \in NumberFields}
    \cup {List(<<>>)}

\* The mapping with GITHUB_SERVER_URL as well: url is <<>> or <<value>>.
WithServerUrl(env, url) ==
    [k \in DOMAIN env \cup (IF url = <<>> THEN {} ELSE {"GITHUB_SERVER_URL"}) |->
        IF k = "GITHUB_SERVER_URL" THEN url[1] ELSE env[k]]

ServerUrls == {<<>>, <<"https://ghe.test">>}

InitDerive ==
    /\ os_environ = EmptyMap
    /\ \/ \E repo \in {<<>>} \cup {<<s>> : s \in StringsUpTo(MaxRepoLen)},
            r \in RepositoryFields, url \in ServerUrls :
            /\ environ = WithServerUrl(EnvOf(<<"event.json">>, repo), url)
            /\ files = [p \in {"event.json"} |->
                          File(Json(MkDict(r \cup {<<"number", PyInt(9)>>})))]
       \/ \E repo \in {<<>>, <<"">>, <<"a/a">>, <<"a">>}, doc \in Payloads,
            url \in ServerUrls :
            /\ environ = WithServerUrl(EnvOf(<<"event.json">>, repo), url)
            /\ files = [p \in {"event.json"} |-> File(Json(doc))]
    /\ NoInstance

NextDerive ==
    \/ Construct(TRUE, Dict(EmptyMap), None)
    \/ ReadRepository
    \/ ReadIssue
    \/ ReadRepositoryUrl

SpecDerive == InitDerive /\ [][NextDerive]_vars

(***************************************************************************)
(* Claims about the derivation of `repository` and `issue`                 *)
(***************************************************************************)

\* The state right after the first read of `repository` on the instance.
FirstRepositoryRead == ret.op = "repository" /\ ret.fresh

\* The state right after the first read of `issue` on the instance.
FirstIssueRead == ret.op = "issue" /\ ret.fresh

EnvRepositorySet ==
    "GITHUB_REPOSITORY" \in DOMAIN self_env /\ self_env["GITHUB_REPOSITORY"] # ""

\* The position of the first "/" of s, or 0.
RECURSIVE FirstSlash(_, _)
FirstSlash(s, i) ==
    IF i > Len(s) THEN 0
    ELSE IF SubSeq(s, i, i) = "/" THEN i
    ELSE FirstSlash(s, i + 1)

\* The RepositoryRef of a value split on its first "/" only.
SplitOnFirstSlash(s) ==
    LET i == FirstSlash(s, 1)
    IN  IF i = 0 THEN GitHubContextRepo(Str(s), Str(""))
        ELSE GitHubContextRepo(Str(SubSeq(s, 1, i - 1)), Str(SubSeq(s, i + 1, Len(s))))

HasObject(d, k) == d.t = "dict" /\ k \in DOMAIN d.v /\ d.v[k].t = "dict"

\* payload.repository.owner.login and payload.repository.name are there.
HasRepositoryFields(d) ==
    /\ HasObject(d, "repository")
    /\ HasObject(d.v["repository"], "owner")
    /\ "login" \in DOMAIN d.v["repository"].v["owner"].v
    /\ "name" \in DOMAIN d.v["repository"].v

\* C1: the first read of `repository` returns the RepositoryRef built from
\* GITHUB_REPOSITORY when the variable is present and non-empty, otherwise
\* RepositoryRef(payload.repository.owner.login, payload.repository.name)
\* when the payload has a `repository` object, otherwise absent.
C1_RepositoryPrecedence ==
    FirstRepositoryRead =>
        /\ ret.out.kind = "return"
        /\ EnvRepositorySet =>
              ret.out.val = SplitOnFirstSlash(self_env["GITHUB_REPOSITORY"])
        /\ (~EnvRepositorySet /\ HasRepositoryFields(_payload)) =>
              ret.out.val = GitHubContextRepo(
                                _payload.v["repository"].v["owner"].v["login"],
                                _payload.v["repository"].v["name"])
        /\ (~EnvRepositorySet /\ _payload.t = "dict"
            /\ "repository" \notin DOMAIN _payload.v) =>
              ret.out.val = None

\* C2: for every present, non-empty GITHUB_REPOSITORY value, `repository`
\* returns, without error, the RepositoryRef whose owner is the text before
\* the first "/" and whose name is everything after it.
C2_SplitOnFirstSlash ==
    (FirstRepositoryRead /\ EnvRepositorySet) =>
        ret.out = Return(SplitOnFirstSlash(self_env["GITHUB_REPOSITORY"]))

\* C10: with a valid-JSON payload and GITHUB_REPOSITORY unset, reading
\* `repository` and `issue` never raises; a `repository` object that lacks
\* owner, owner.login or name gives an absent `repository`.
C10_MissingFieldsNotFatal ==
    (ret.op \in {"repository", "issue"} /\ "GITHUB_REPOSITORY" \notin DOMAIN self_env) =>
        /\ ret.out.kind = "return"
        /\ (ret.op = "repository" /\ HasObject(_payload, "repository")
            /\ ~HasRepositoryFields(_payload)) => ret.out.val = None

Field_of(d, k) == IF k \in DOMAIN d.v THEN d.v[k] ELSE None

\* The candidate of the claim as written: a field that is present (there
\* and not null) is taken.
CandidateIfPresent(d) ==
    IF Field_of(d, "issue") # None THEN d.v["issue"]
    ELSE IF Field_of(d, "pull_request") # None THEN d.v["pull_request"]
    ELSE d

\* The candidate of the amended claim: a field that is present and truthy
\* (not null, not an empty object) is taken.
CandidateIfTruthy(d) ==
    IF Truthy(Field_of(d, "issue")) THEN d.v["issue"]
    ELSE IF Truthy(Field_of(d, "pull_request")) THEN d.v["pull_request"]
    ELSE d

\* The issue of a candidate, given the outcome of `repository`.
IssueOf(candidate, repo) ==
    LET n == IF candidate.t = "dict" THEN Field_of(candidate, "number") ELSE None
    IN  IF ~Truthy(n) THEN Return(None)
        ELSE IF repo.kind = "raise" THEN repo
        ELSE IF repo.val = None THEN Return(None)
        ELSE Return(GitHubContextIssue(repo.val.owner, repo.val.name, n))

\* The payloads the claim about `issue` covers: a JSON object whose `issue`
\* and `pull_request` fields, when present, are objects or null.
IssueShaped(d) ==
    /\ d.t = "dict"
    /\ \A k \in {"issue", "pull_request"} \cap DOMAIN d.v : d.v[k].t \in {"dict", "None"}

\* What `repository` gives on this instance: the memoized value, or the
\* outcome of deriving it now.
RepositoryOutcome ==
    IF "repository" \in DOMAIN cached THEN Return(cached["repository"])
    ELSE repository(self_env, _payload)

\* C3 as written: the candidate is the `issue` field if present, else the
\* `pull_request` field if present, else the payload; the result is absent
\* when the candidate's number is absent or falsy or `repository` is absent,
\* and IssueRef(repository.owner, repository.name, number) otherwise.
C3_IssueFromPresentField ==
    (FirstIssueRead /\ IssueShaped(_payload) /\ RepositoryOutcome.kind = "return") =>
        ret.out = IssueOf(CandidateIfPresent(_payload), RepositoryOutcome)

\* C3 amended: the candidate is the `issue` field if present and truthy,
\* else the `pull_request` field if present and truthy, else the payload;
\* the result is absent when the candidate's number is absent or falsy
\* (`repository` is then not read), otherwise it is the error of
\* `repository` when that raises, absent when `repository` is absent, and
\* IssueRef(repository.owner, repository.name, number) otherwise.
C3_IssueFromTruthyField ==
    (FirstIssueRead /\ IssueShaped(_payload)) =>
        ret.out = IssueOf(CandidateIfTruthy(_payload), RepositoryOutcome)

\* An empty `issue` object is passed over and the number of `pull_request`
\* makes the issue.
C3_Witness ==
    /\ FirstIssueRead
    /\ IssueShaped(_payload)
    /\ "issue" \in DOMAIN _payload.v
    /\ _payload.v["issue"] = Dict(EmptyMap)
    /\ ret.out.kind = "return"
    /\ ret.out.val.t = "GitHubContextIssue"
    /\ ret.out.val.number = PyInt(8)

(***************************************************************************)
(* The single-variable properties on bounded environments: every mapping   *)
(* that sets at most MaxEnvVars of their variables.                        *)
(***************************************************************************)
MaxEnvVars == 1

PassthroughVariables ==
    {"GITHUB_ACTION", "GITHUB_ACTION_PATH", "GITHUB_ACTION_REF",
     "GITHUB_ACTION_REPOSITORY", "GITHUB_ACTOR", "GITHUB_API_URL",
     "GITHUB_BASE_REF", "GITHUB_EVENT_NAME", "GITHUB_GRAPHQL_URL",
     "GITHUB_HEAD_REF", "GITHUB_JOB", "GITHUB_REF", "GITHUB_REF_NAME",
     "GITHUB_REF_PROTECTED", "GITHUB_REF_TYPE", "GITHUB_SERVER_URL",
     "GITHUB_SHA", "GITHUB_TOKEN", "GITHUB_TRIGGERING_ACTOR",
     "GITHUB_WORKFLOW", "GITHUB_WORKFLOW_REF", "GITHUB_WORKFLOW_SHA"}

ValuesOf(variable) ==
    IF variable = "GITHUB_REF_PROTECTED"
    THEN {"", "0", "1", "11", "true", "True", "TRUE", "tRuE", "false", "yes"}
    ELSE {"", "test"}

RECURSIVE EnvsUpTo(_)
EnvsUpTo(n) ==
    IF n = 0 THEN {EmptyMap}
    ELSE LET fewer == EnvsUpTo(n - 1)
         IN  fewer \cup
             UNION {UNION {{[k \in DOMAIN e \cup {x} |-> IF k = x THEN v ELSE e[k]] :
                               v \in ValuesOf(x)} :
                           x \in PassthroughVariables \ DOMAIN e} :
                    e \in fewer}

InitEnv ==
    /\ os_environ = [k \in {"GITHUB_ACTOR"} |-> "runner"]
    /\ environ \in EnvsUpTo(MaxEnvVars)
    /\ files = EmptyMap
    /\ NoInstance

\* The construction, the reads, and a caller that goes on using the dict it
\* passed: it changes a value it had set, and sets and removes the event
\* path.
NextEnv ==
    \/ Construct(TRUE, Dict(EmptyMap), None)
    \/ \E name \in Passthrough : ReadPassthrough(name)
    \/ ReadEventPath
    \/ \E name \in DOMAIN environ \ {"GITHUB_EVENT_PATH"} : CallerSets(name, "changed")
    \/ CallerSets("GITHUB_EVENT_PATH", "event.json")
    \/ CallerPops("GITHUB_EVENT_PATH")

SpecEnv == InitEnv /\ [][NextEnv]_vars

(***************************************************************************)
(* Claims about the single-variable properties                             *)
(***************************************************************************)

\* The table of the specification: the variable behind each accessor.
DocVariable(name) ==
    CASE name = "action" -> "GITHUB_ACTION"
      [] name = "action_path" -> "GITHUB_ACTION_PATH"
      [] name = "action_ref" -> "GITHUB_ACTION_REF"
      [] name = "action_repository" -> "GITHUB_ACTION_REPOSITORY"
      [] name = "actor" -> "GITHUB_ACTOR"
      [] name = "api_url" -> "GITHUB_API_URL"
      [] name = "base_ref" -> "GITHUB_BASE_REF"
      [] name = "event_name" -> "GITHUB_EVENT_NAME"
      [] name = "graphql_url" -> "GITHUB_GRAPHQL_URL"
      [] name = "head_ref" -> "GITHUB_HEAD_REF"
      [] name = "job" -> "GITHUB_JOB"
      [] name = "ref" -> "GITHUB_REF"
      [] name = "ref_name" -> "GITHUB_REF_NAME"
      [] name = "ref_protected" -> "GITHUB_REF_PROTECTED"
      [] name = "ref_type" -> "GITHUB_REF_TYPE"
      [] name = "server_url" -> "GITHUB_SERVER_URL"
      [] name = "sha" -> "GITHUB_SHA"
      [] name = "token" -> "GITHUB_TOKEN"
      [] name = "triggering_actor" -> "GITHUB_TRIGGERING_ACTOR"
      [] name = "workflow" -> "GITHUB_WORKFLOW"
      [] name = "workflow_ref" -> "GITHUB_WORKFLOW_REF"
      [] name = "workflow_sha" -> "GITHUB_WORKFLOW_SHA"

\* The table of the specification: what each accessor gives when unset.
DocDefault(name) ==
    CASE name \in {"action_path", "action_ref", "action_repository", "base_ref",
                   "head_ref", "job"} -> None
      [] name = "api_url" -> Str("https://api.github.com")
      [] name = "graphql_url" -> Str("https://api.github.com/graphql")
      [] name = "ref_protected" -> PyBool(FALSE)
      [] name = "ref_type" -> Str("branch")
      [] name = "server_url" -> Str("https://github.com")
      [] OTHER -> Str("")

\* The values that lowercase to "1" or "true".
TrueSpellings ==
    {"1"} \cup {a \o b \o c \o d : a \in {"t", "T"}, b \in {"r", "R"},
                                   c \in {"u", "U"}, d \in {"e", "E"}}

\* What the table promises for an accessor whose variable is set to v; the
\* path accessor gives v as a path.
DocValue(name, v) ==
    CASE name = "ref_protected" -> PyBool(v \in TrueSpellings)
      [] name = "action_path" -> [t |-> "Path", v |-> v]
      [] OTHER -> Str(v)

\* C9 as written: an accessor of the table returns the documented default
\* when its variable is unset and the value v when it is set to v.
C9_PassthroughTable ==
    ret.op \in Passthrough =>
        ret.out = Return(IF DocVariable(ret.op) \in DOMAIN self_env
                         THEN DocValue(ret.op, self_env[DocVariable(ret.op)])
                         ELSE DocDefault(ret.op))

\* C9 amended: as written, except that `action_path` is absent when its
\* variable is unset or empty, and the path of v when it is set to a
\* non-empty v.
C9_PassthroughTableEmptyPath ==
    ret.op \in Passthrough =>
        ret.out = Return(IF /\ DocVariable(ret.op) \in DOMAIN self_env
                            /\ ~(ret.op = "action_path"
                                 /\ self_env[DocVariable(ret.op)] = "")
                         THEN DocValue(ret.op, self_env[DocVariable(ret.op)])
                         ELSE DocDefault(ret.op))

\* `action_path` is read with GITHUB_ACTION_PATH set to the empty string.
C9_Witness ==
    /\ ret.op = "action_path"
    /\ "GITHUB_ACTION_PATH" \in DOMAIN self_env
    /\ self_env["GITHUB_ACTION_PATH"] = ""
    /\ ret.out = Return(None)

(***************************************************************************)
(* Claims about construction and memoization                               *)
(***************************************************************************)

\* C4: once `repository` (respectively `issue`) has been read on the
\* instance, the memoized value stays what it is and every later read
\* returns it, whatever is done to the environment mapping, the process
\* environment or the event file in between.
C4_Memoized ==
    [][\A name \in {"repository", "issue"} :
          name \in DOMAIN cached =>
             /\ name \in DOMAIN cached'
             /\ cached'[name] = cached[name]
             /\ ret'.op = name => ret'.out = Return(cached[name])]_vars

\* `repository` is read again after the environment mapping was changed:
\* the value returned is the memoized one, not what a derivation would give.
C4_Witness ==
    /\ ret.op = "repository"
    /\ ~ret.fresh
    /\ ret.out.kind = "return"
    /\ ret.out.val.t = "GitHubContextRepo"
    /\ repository(self_env, _payload) # ret.out

\* The file a path names, or <<>>: the path is given as a one-element
\* sequence, or <<>> for none.
FileAt(path) ==
    IF path # <<>> /\ path[1] \in DOMAIN files /\ files[path[1]].kind = "file"
    THEN <<files[path[1]].text>>
    ELSE <<>>

\* The payload path of a construction: the explicit argument, else the
\* GITHUB_EVENT_PATH of the accessor's environment, else none.
ConstructionPath ==
    IF ret.event_path_arg # None THEN <<ret.event_path_arg.v>>
    ELSE IF "GITHUB_EVENT_PATH" \in DOMAIN self_env
         THEN <<self_env["GITHUB_EVENT_PATH"]>>
         ELSE <<>>

\* C5: after a construction, the raw payload is the JSON of the file at the
\* explicit `event_path` argument, else at the GITHUB_EVENT_PATH of the
\* environment, when that is an existing regular file, and the empty
\* mapping in every other case; the event is the value the caller gave.
\* The construction fails only on a file that is not JSON.
C5_PayloadResolution ==
    ret.op = "__init__" =>
        IF ret.out.kind = "return"
        THEN /\ constructed
             /\ event = ret.event_arg
             /\ _payload = IF FileAt(ConstructionPath) # <<>>
                           THEN FileAt(ConstructionPath)[1].doc
                           ELSE Dict(EmptyMap)
             /\ FileAt(ConstructionPath) # <<>> => FileAt(ConstructionPath)[1].valid
        ELSE /\ ~constructed
             /\ ret.out = Raise("JSONDecodeError")
             /\ \E p \in DOMAIN files : files[p].kind = "file" /\ ~files[p].text.valid

\* The explicit argument names one file and the environment another path:
\* the payload is the file of the argument.
C5_Witness ==
    /\ ret.op = "__init__"
    /\ ret.out.kind = "return"
    /\ ret.event_path_arg = Path("other.json")
    /\ "GITHUB_EVENT_PATH" \in DOMAIN self_env
    /\ self_env["GITHUB_EVENT_PATH"] = "tmp"
    /\ _payload = OtherEvent
    /\ event = Dict([name |-> Str("foo")])

\* C6: for an accessor returned by `from_file`, the event and the raw
\* payload are equal, both the JSON of the file `from_file` resolved, and
\* `event_path` is the path `from_file` resolved.
C6_FromFileEventIsPayload ==
    (ret.op = "from_file" /\ ret.out.kind = "return") =>
        /\ constructed
        /\ FileAt(<<ret.path.v>>) # <<>>
        /\ event = FileAt(<<ret.path.v>>)[1].doc
        /\ _payload = event
        /\ event_path(_event_path, self_env) = ret.path

\* `from_file` loaded one file while the environment of the accessor names
\* another path.
C6_Witness ==
    /\ ret.op = "from_file"
    /\ ret.out.kind = "return"
    /\ ret.path = Path("event.json")
    /\ "GITHUB_EVENT_PATH" \in DOMAIN self_env
    /\ self_env["GITHUB_EVENT_PATH"] = "other.json"
    /\ event = PushEvent
    /\ _payload = PushEvent

\* The payload path of a `from_file` call as the code resolves it: the
\* explicit argument when one is given (not None, not ""), else the
\* GITHUB_EVENT_PATH of the process environment when set and non-empty.
FromFilePath ==
    IF Truthy(ret.event_path_arg) THEN <<ret.event_path_arg.v>>
    ELSE IF "GITHUB_EVENT_PATH" \in DOMAIN os_environ
            /\ os_environ["GITHUB_EVENT_PATH"] # ""
         THEN <<os_environ["GITHUB_EVENT_PATH"]>>
         ELSE <<>>

\* C7: `from_file` raises FileNotFoundError and constructs no accessor when
\* no payload path can be resolved or the resolved path is not an existing
\* regular file.
C7_FromFileNotFound ==
    (ret.op = "from_file" /\ FileAt(FromFilePath) = <<>>) =>
        /\ ret.out = Raise("FileNotFoundError")
        /\ ~constructed

\* `from_file` was called without an argument and GITHUB_EVENT_PATH unset.
C7_Witness ==
    /\ ret.op = "from_file"
    /\ ret.event_path_arg = None
    /\ "GITHUB_EVENT_PATH" \notin DOMAIN os_environ
    /\ ret.out = Raise("FileNotFoundError")
    /\ ~constructed

\* C8: `from_file` with an environment snapshot and no explicit path
\* resolves the path from the GITHUB_EVENT_PATH of that snapshot: the file
\* loaded and `event_path` are the ones the snapshot names.
C8_FromFileUsesSnapshot ==
    (/\ ret.op = "from_file"
     /\ ret.environ_given
     /\ ~Truthy(ret.event_path_arg)
     /\ "GITHUB_EVENT_PATH" \in DOMAIN environ
     /\ FileAt(<<environ["GITHUB_EVENT_PATH"]>>) # <<>>
     /\ FileAt(<<environ["GITHUB_EVENT_PATH"]>>)[1].valid) =>
        /\ ret.out.kind = "return"
        /\ ret.path = Path(environ["GITHUB_EVENT_PATH"])
        /\ event = FileAt(<<environ["GITHUB_EVENT_PATH"]>>)[1].doc
        /\ event_path(_event_path, self_env) = Path(environ["GITHUB_EVENT_PATH"])


(***************************************************************************)
(* Claims about the environment the instance holds                         *)
(***************************************************************************)

\* The operations of the caller and of the rest of the process, as `ret`
\* names them; every other operation is one of GithubContext.
CallerOps ==
    {"none", "environ.__setitem__", "environ.pop", "os.environ.__setitem__",
     "write_text"}

\* C11: no operation of GithubContext (construction, from_file, a read of
\* any property, in any order and any number of times) sets, changes or
\* removes an entry of the mapping the caller passed, of the mapping the
\* instance holds or of the process environment.
C11_EnvironmentUntouched ==
    [][ret'.op \notin CallerOps =>
          /\ os_environ' = os_environ
          /\ environ' = environ
          /\ constructed => /\ env_alias' = env_alias
                            /\ env_copy' = env_copy
                            /\ self_env' = self_env]_vars

\* A property is read on an instance that took its path as an argument and
\* holds a mapping without GITHUB_EVENT_PATH, after `repository` and `issue`
\* were read as well.
C11_Witness ==
    /\ ret.op = "event_path"
    /\ ret.out.val.t = "Path"
    /\ "GITHUB_EVENT_PATH" \notin DOMAIN self_env
    /\ {"repository", "issue"} \subseteq DOMAIN cached

(***************************************************************************)
(* Claims about `repository_url`                                           *)
(***************************************************************************)

\* The server the specification names: GITHUB_SERVER_URL, by default
\* "https://github.com".
DocServerUrl ==
    IF "GITHUB_SERVER_URL" \in DOMAIN self_env
    THEN self_env["GITHUB_SERVER_URL"]
    ELSE "https://github.com"

\* What the claim gives for a memoized `repository`.
DocRepositoryUrl(repo) ==
    IF repo = None THEN None
    ELSE Str(DocServerUrl \o "/" \o repo.owner.v \o "/" \o repo.name.v)

\* C12: a read of `repository_url` returns None when `repository` is None
\* and otherwise the string
\* "{server_url}/{repository.owner}/{repository.name}" of the memoized
\* `repository`, with "https://github.com" for a server that is not set.
\* (Without a memoized `repository` its read has raised, and the read of
\* `repository_url` raises with it.)
C12_RepositoryUrl ==
    ret.op = "repository_url" =>
        IF "repository" \in DOMAIN cached
        THEN ret.out = Return(DocRepositoryUrl(cached["repository"]))
        ELSE ret.out.kind = "raise"

\* `repository_url` is read with GITHUB_SERVER_URL set and the repository
\* taken from the payload: the string names that server.
C12_Witness ==
    /\ ret.op = "repository_url"
    /\ ret.out.kind = "return"
    /\ ret.out.val.t = "str"
    /\ "GITHUB_SERVER_URL" \in DOMAIN self_env
    /\ "GITHUB_REPOSITORY" \notin DOMAIN self_env

(***************************************************************************)
(* Claims about the environment as a snapshot                              *)
(***************************************************************************)

\* C13: the environment is a snapshot taken at construction.  On a
\* constructed instance no step changes what a read of a single-variable
\* property or of `event_path` returns, nor the attributes other than the
\* memoized values: every read gives the value the environment at
\* construction determines, even when the caller changes the mapping it
\* passed.
C13_EnvironmentIsSnapshot ==
    [][constructed =>
          /\ \A name \in Passthrough :
                getattr_passthrough(name, self_env') = getattr_passthrough(name, self_env)
          /\ event_path(_event_path', self_env') = event_path(_event_path, self_env)
          /\ self_env' = self_env
          /\ UNCHANGED <<_event_path, event, _payload>>]_vars

\* C14: whenever the constructor is given an `environ` mapping, of any
\* size, the environment of the instance equals that mapping and every
\* property reads from it; the process environment is taken only when the
\* argument is left out.
C14_SuppliedMappingIsUsed ==
    (ret.op \in {"__init__", "from_file"} /\ ret.out.kind = "return") =>
        LET given == IF ret.environ_given THEN environ ELSE os_environ IN
        /\ self_env = given
        /\ \A name \in Passthrough :
              getattr_passthrough(name, self_env) = getattr_passthrough(name, given)
        /\ event_path(_event_path, self_env) = event_path(_event_path, given)

(***************************************************************************)
(* Claims about how often the derivations run                              *)
(***************************************************************************)

\* C15: on one instance the body of `repository` runs at most once and the
\* body of `issue` runs at most once, however often and in whichever order
\* `repository`, `issue` and `repository_url` are read, a result of None
\* included.
C15_DerivedAtMostOnce ==
    /\ runs.repository <= 1
    /\ runs.issue <= 1

(***************************************************************************)
(* Claims about the two memoized values together                           *)
(***************************************************************************)

\* C16: on an instance, after any reads of `repository` and `issue` in
\* either order with changes to the environment mapping in between, an
\* `issue` that is not None comes with a `repository` that is not None, and
\* issue.owner = repository.owner and issue.repo = repository.name.
C16_IssueAgreesWithRepository ==
    ("issue" \in DOMAIN cached /\ cached["issue"] # None) =>
        /\ "repository" \in DOMAIN cached
        /\ cached["repository"] # None
        /\ cached["issue"].owner = cached["repository"].owner
        /\ cached["issue"].repo = cached["repository"].name

\* `issue` is first read after `repository` was memoized and the caller
\* gave GITHUB_REPOSITORY another value: the issue names the memoized
\* repository, not the one the environment now names.
C16_Witness ==
    /\ ret.op = "issue"
    /\ ret.fresh
    /\ ret.out.kind = "return"
    /\ ret.out.val # None
    /\ repository(self_env, _payload).kind = "return"
    /\ repository(self_env, _payload).val # cached["repository"]
=============================================================================
